---------------------------- MODULE Spec2Model ----------------------------
(***************************************************************************)
(* A model of job_scan.py: the Adzuna fetch loop with its normalisation of *)
(* raw records, the location/remote filter, the relevance scorer, the      *)
(* de-duplication and curation steps of main, and the trend extractor.     *)
(*                                                                         *)
(* Python strings are sequences of one-character strings, so that          *)
(* lower-casing, the two regular-expression substitutions of clean_text,   *)
(* the substring tests ("k in t") and the tokenisation of CountVectorizer  *)
(* are computed character by character.                                    *)
(***************************************************************************)
EXTENDS Integers, Sequences, FiniteSets, TLC

(***************************************************************************)
(* Characters.                                                             *)
(***************************************************************************)
LowerSeq ==
    << "a","b","c","d","e","f","g","h","i","j","k","l","m",
       "n","o","p","q","r","s","t","u","v","w","x","y","z" >>

UpperSeq ==
    << "A","B","C","D","E","F","G","H","I","J","K","L","M",
       "N","O","P","Q","R","S","T","U","V","W","X","Y","Z" >>

DigitSeq == << "0","1","2","3","4","5","6","7","8","9" >>

\* Code-point order of the characters that survive clean_text and can be
\* part of a token: digits before lower-case letters.
WordCharSeq == DigitSeq \o LowerSeq

Range(f) == { f[i] : i \in DOMAIN f }

LowerLetters == Range(LowerSeq)
Digits == Range(DigitSeq)
WordChars == LowerLetters \cup Digits

\* The characters the regular expression class \s matches.
Whitespace == { " ", "\t", "\n" }

\* str.lower() on one character.
lower_char(c) ==
    IF \E i \in DOMAIN UpperSeq : UpperSeq[i] = c
    THEN LowerSeq[CHOOSE i \in DOMAIN UpperSeq : UpperSeq[i] = c]
    ELSE c

\* str.lower()
lower(s) == [ i \in DOMAIN s |-> lower_char(s[i]) ]

\* re.sub(r"[^a-z0-9\s/+-]", " ", s)
sub_disallowed(s) ==
    [ i \in DOMAIN s |->
        IF s[i] \in WordChars \cup Whitespace \cup { "/", "+", "-" }
        THEN s[i] ELSE " " ]

\* re.sub(r"\s+", " ", s): every maximal run of whitespace becomes one space.
RECURSIVE collapse_ws(_)
collapse_ws(s) ==
    IF s = << >> THEN << >>
    ELSE IF s[1] \in Whitespace
         THEN IF Len(s) > 1 /\ s[2] \in Whitespace
              THEN collapse_ws(Tail(s))
              ELSE << " " >> \o collapse_ws(Tail(s))
         ELSE << s[1] >> \o collapse_ws(Tail(s))

\* str.strip()
RECURSIVE lstrip(_)
lstrip(s) ==
    IF s # << >> /\ s[1] \in Whitespace THEN lstrip(Tail(s)) ELSE s

RECURSIVE rstrip(_)
rstrip(s) ==
    IF s # << >> /\ s[Len(s)] \in Whitespace
    THEN rstrip(SubSeq(s, 1, Len(s) - 1)) ELSE s

strip(s) == rstrip(lstrip(s))

\* Lines 32-34 of clean_text: the pipeline applied once s is a string.
clean_str(s) == strip(collapse_ws(sub_disallowed(lower(s))))

\* Python's "p in t" on strings.
IsSubstr(p, t) ==
    \E i \in 0 .. (Len(t) - Len(p)) : SubSeq(t, i + 1, i + Len(p)) = p

(***************************************************************************)
(* Words used to write the configured lists, the profiles and the texts    *)
(* of the sample records.                                                  *)
(***************************************************************************)
s_gandhinagar == << "g","a","n","d","h","i","n","a","g","a","r" >>

s_nadiad == << "n","a","d","i","a","d" >>

s_anand == << "a","n","a","n","d" >>

s_surat == << "s","u","r","a","t" >>

s_pune == << "p","u","n","e" >>

s_nashik == << "n","a","s","h","i","k" >>

s_remote == << "r","e","m","o","t","e" >>

s_work_from_home == << "w","o","r","k"," ","f","r","o","m"," ","h","o","m","e" >>

s_wfh == << "w","f","h" >>

s_work_from_home_hyphen == << "w","o","r","k","-","f","r","o","m","-","h","o","m","e" >>

s_anywhere == << "a","n","y","w","h","e","r","e" >>

s_qa == << "q","a" >>

s_quality == << "q","u","a","l","i","t","y" >>

s_test == << "t","e","s","t" >>

s_tester == << "t","e","s","t","e","r" >>

s_sdet == << "s","d","e","t" >>

s_automation == << "a","u","t","o","m","a","t","i","o","n" >>

\* TARGET_CITIES, in the configured order.
TARGET_CITIES ==
    << s_gandhinagar, s_nadiad, s_anand, s_surat, s_pune, s_nashik >>

REMOTE_KEYWORDS ==
    << s_remote, s_work_from_home, s_wfh, s_work_from_home_hyphen, s_anywhere >>

\* The keyword list of score_job's title-relevance test.
TITLE_KEYWORDS ==
    << s_qa, s_quality, s_test, s_tester, s_sdet, s_automation >>

(***************************************************************************)
(* Python values.  A value is None, a string, or a dict; of a dict the     *)
(* model keeps what the program reads: its "display_name" entry (absent,   *)
(* None or a string) and whether it has any other entry (Adzuna's "area"), *)
(* which decides its truth value.  kind "absent" marks a missing key of    *)
(* the enclosing record.                                                   *)
(***************************************************************************)
NoLeaf == [ kind |-> "absent", str |-> << >> ]

NoneLeaf == [ kind |-> "None", str |-> << >> ]

StrLeaf(s) == [ kind |-> "str", str |-> s ]

Absent == [ kind |-> "absent", str |-> << >>, dn |-> NoLeaf, area |-> FALSE ]

None == [ kind |-> "None", str |-> << >>, dn |-> NoLeaf, area |-> FALSE ]

Str(s) == [ kind |-> "str", str |-> s, dn |-> NoLeaf, area |-> FALSE ]

Dict(leaf, area) == [ kind |-> "dict", str |-> << >>, dn |-> leaf, area |-> area ]

EmptyStr == Str(<< >>)

EmptyDict == Dict(NoLeaf, FALSE)

\* bool(v)
Truthy(v) ==
    CASE v.kind = "str" -> v.str # << >>
      [] v.kind = "dict" -> v.dn.kind # "absent" \/ v.area
      [] OTHER -> FALSE

\* a or b
Or(a, b) == IF Truthy(a) THEN a ELSE b

\* record.get(key, default), v being the record's entry for the key
Get(v, default) == IF v.kind = "absent" THEN default ELSE v

\* d.get("display_name", default) on a dict d
GetDisplayName(d, default) ==
    IF d.dn.kind = "absent" THEN default
    ELSE [ kind |-> d.dn.kind, str |-> d.dn.str, dn |-> NoLeaf, area |-> FALSE ]

\* x.get(...) raises AttributeError unless x is a dict
HasNoGet(x) == x.kind # "dict"

(***************************************************************************)
(* utilities                                                               *)
(***************************************************************************)
\* clean_text raises AttributeError when "s or ''" is not a string: it has
\* no method lower.
clean_text_raises(v) == Truthy(v) /\ v.kind # "str"

clean_text(v) == clean_str(IF Truthy(v) THEN v.str ELSE << >>)

is_remote_text(text) ==
    \E i \in DOMAIN REMOTE_KEYWORDS : IsSubstr(REMOTE_KEYWORDS[i], clean_text(text))

city_matches(text) ==
    SelectSeq(TARGET_CITIES, LAMBDA c : IsSubstr(c, clean_text(text)))

(***************************************************************************)
(* Adzuna fetcher: the listing built from one raw record "it".  A listing  *)
(* (job) is a dict; the keys added later are present from the start in the *)
(* model, with matched_locations = << >>, score = -1 and label = "" for a  *)
(* key that is still missing.                                              *)
(***************************************************************************)
\* Line 82 calls .get on "it.get('company') or {}" and line 83 on
\* "it.get('location', {})": AttributeError unless that is a dict.
normalize_raises(it) ==
    \/ HasNoGet(Or(Get(it.company, None), EmptyDict))
    \/ HasNoGet(Get(it.location, EmptyDict))

make_job(it) ==
    [ source   |-> "adzuna",
      title    |-> Or(Get(it.title, EmptyStr), EmptyStr),
      company  |-> Or(GetDisplayName(Or(Get(it.company, None), EmptyDict), EmptyStr),
                      EmptyStr),
      location |-> Or(GetDisplayName(Get(it.location, EmptyDict), EmptyStr),
                      Get(it.location, EmptyStr)),
      desc     |-> Or(Get(it.description, EmptyStr), EmptyStr),
      link     |-> Or(Get(it.redirect_url, EmptyStr), Get(it.link, EmptyStr)),
      matched_locations |-> << >>,
      score    |-> -1,
      label    |-> "" ]

\* The loop "for it in results: jobs.append({...})" of one page.
RECURSIVE append_results(_, _)
append_results(jobs, results) ==
    IF results = << >> THEN [ raised |-> FALSE, jobs |-> jobs ]
    ELSE IF normalize_raises(results[1]) THEN [ raised |-> TRUE, jobs |-> jobs ]
    ELSE append_results(Append(jobs, make_job(results[1])), Tail(results))

(***************************************************************************)
(* scoring & filtering                                                     *)
(***************************************************************************)
Min(a, b) == IF a <= b THEN a ELSE b

\* PROFILE.get("skills", {}).get("core", []), .get("secondary", []) and
\* PROFILE.get("domains", []): a missing section is an empty list.
profile_core(profile) ==
    IF {"skills", "core"} \subseteq profile.keys THEN profile.core ELSE << >>

profile_secondary(profile) ==
    IF {"skills", "secondary"} \subseteq profile.keys THEN profile.secondary ELSE << >>

profile_domains(profile) ==
    IF "domains" \in profile.keys THEN profile.domains ELSE << >>

\* "for s in list: if s.lower() in text: total += weight"
RECURSIVE add_matches(_, _, _)
add_matches(list, text, weight) ==
    IF list = << >> THEN 0
    ELSE (IF IsSubstr(lower(list[1]), text) THEN weight ELSE 0)
         + add_matches(Tail(list), text, weight)

score_text(job) ==
    clean_text(Str(job.title.str \o << " " >> \o job.desc.str \o << " " >> \o job.company.str))

title_relevance(text) ==
    IF \E i \in DOMAIN TITLE_KEYWORDS : IsSubstr(TITLE_KEYWORDS[i], text) THEN 10 ELSE 0

skill_score(profile, text) ==
    add_matches(profile_core(profile), text, 6)
    + add_matches(profile_secondary(profile), text, 3)

\* capped_skill_score without its cap.
uncapped_skill_score(profile, text) == skill_score(profile, text)

capped_skill_score(profile, text) == Min(skill_score(profile, text), 40)

domain_score(profile, text) == add_matches(profile_domains(profile), text, 5)

raw_score(profile, text) ==
    title_relevance(text) + capped_skill_score(profile, text) + domain_score(profile, text)

\* job_score without the final clamp.
unclamped_job_score(profile, job) == raw_score(profile, score_text(job))

job_score(profile, job) == Min(raw_score(profile, score_text(job)), 100)

job_label(score) ==
    IF score >= 75 THEN "Excellent"
    ELSE IF score >= 60 THEN "Good"
    ELSE IF score >= 40 THEN "Potential"
    ELSE "Discard"

\* score_job that also stores the canonicalized title and description.
score_job_storing_clean_text(profile, job) ==
    [ job EXCEPT !.score = job_score(profile, job),
                 !.label = job_label(job_score(profile, job)),
                 !.title = Str(clean_text(job.title)),
                 !.desc = Str(clean_text(job.desc)) ]

score_job(profile, job) ==
    [ job EXCEPT !.score = job_score(profile, job),
                 !.label = job_label(job_score(profile, job)) ]

\* "j.get('location', '') or ''" and "j.get('desc', '') or ''"
loc_text(j) == Or(j.location, EmptyStr)

desc_text(j) == Or(j.desc, EmptyStr)

\* remote_match looking at the location only.
remote_match_location_only(j) == is_remote_text(loc_text(j))

\* Line 124
remote_match(j) == is_remote_text(loc_text(j)) \/ is_remote_text(desc_text(j))

\* city_match collecting the cities of both texts.
city_match_union(j) ==
    SelectSeq(TARGET_CITIES,
              LAMBDA c : \/ IsSubstr(c, clean_text(loc_text(j)))
                         \/ IsSubstr(c, clean_text(desc_text(j))))

\* Line 129: a non-empty list is true, so the description is consulted only
\* when the location names no target city.
city_match(j) ==
    IF city_matches(loc_text(j)) # << >>
    THEN city_matches(loc_text(j))
    ELSE city_matches(desc_text(j))

\* is_remote_text(loc_text) is evaluated first and desc_text only when it is
\* false; both texts reach clean_text unless the location already matched.
filter_raises(j) ==
    \/ clean_text_raises(loc_text(j))
    \/ (~is_remote_text(loc_text(j)) /\ clean_text_raises(desc_text(j)))

\* The loop of filter_for_targets over jobs[i..]: listings are updated in
\* place, kept holds references (indices into jobs).
RECURSIVE filter_from(_, _, _)
filter_from(jobs, i, kept) ==
    IF i > Len(jobs) THEN [ raised |-> FALSE, jobs |-> jobs, kept |-> kept ]
    ELSE IF filter_raises(jobs[i]) THEN [ raised |-> TRUE, jobs |-> jobs, kept |-> kept ]
    ELSE IF remote_match(jobs[i])
         THEN filter_from([ jobs EXCEPT ![i].matched_locations = << s_remote >> ],
                          i + 1, Append(kept, i))
    ELSE IF city_match(jobs[i]) # << >>
         THEN filter_from([ jobs EXCEPT ![i].matched_locations = city_match(jobs[i]) ],
                          i + 1, Append(kept, i))
    ELSE filter_from(jobs, i + 1, kept)

filter_for_targets(jobs) == filter_from(jobs, 1, << >>)

\* "scored = [score_job(j) for j in matched_jobs]": each kept listing is
\* updated in place.
RECURSIVE score_all(_, _, _)
score_all(profile, jobs, refs) ==
    IF refs = << >> THEN jobs
    ELSE score_all(profile,
                   [ jobs EXCEPT ![refs[1]] = score_job(profile, jobs[refs[1]]) ],
                   Tail(refs))

(***************************************************************************)
(* main: dedupe by link, curated                                           *)
(***************************************************************************)
\* dedupe_key that ignores the link.
dedupe_key_title_company(j) == j.title.str \o j.company.str

\* j.get("link") or j.get("title","") + j.get("company","")
dedupe_key(j) ==
    IF Truthy(j.link) THEN j.link.str ELSE j.title.str \o j.company.str

RECURSIVE dedupe_from(_, _, _, _)
dedupe_from(jobs, refs, seen, deduped) ==
    IF refs = << >> THEN deduped
    ELSE IF dedupe_key(jobs[refs[1]]) \in seen
         THEN dedupe_from(jobs, Tail(refs), seen, deduped)
    ELSE dedupe_from(jobs, Tail(refs),
                     seen \cup { dedupe_key(jobs[refs[1]]) },
                     Append(deduped, refs[1]))

dedupe(jobs, refs) == dedupe_from(jobs, refs, { }, << >>)

is_curated(j) == j.label \in { "Excellent", "Good" }

select_curated(jobs, refs) == SelectSeq(refs, LAMBDA r : is_curated(jobs[r]))

(***************************************************************************)
(* trending: extract_trends and the CountVectorizer it configures          *)
(* (stop_words="english", max_features=2000, the default token pattern     *)
(* \b\w\w+\b and the default unigram bag of words).                        *)
(***************************************************************************)
top_k_default == 25

max_features == 2000

\* The members of scikit-learn's English stop-word list that the sample
\* texts below can produce.
ENGLISH_STOP_WORDS ==
    { << "t","h","e" >>,
      << "i","n" >>,
      << "a","n","d" >>,
      << "o","f" >>,
      << "f","o","r" >>,
      << "w","i","t","h" >>,
      << "t","o" >>,
      << "i","s" >>,
      << "a","t" >>,
      << "o","n" >>,
      << "o","r" >>,
      << "a","n" >>,
      << "a","s" >>,
      << "b","y" >> }

\* "if (j.get('desc','') or '').strip()"
has_description(j) == strip(Or(j.desc, EmptyStr).str) # << >>

trend_doc(j) == clean_text(Str(j.title.str \o << " " >> \o j.desc.str))

\* docs = [clean_text(title + " " + desc) for j in jobs if desc is not blank]
RECURSIVE trend_docs(_)
trend_docs(jobs) ==
    IF jobs = << >> THEN << >>
    ELSE IF has_description(jobs[1])
         THEN << trend_doc(jobs[1]) >> \o trend_docs(Tail(jobs))
         ELSE trend_docs(Tail(jobs))

\* re.findall(r"\b\w\w+\b", doc): the maximal runs of word characters that
\* are at least two characters long; cur is the run being read.
RECURSIVE tokenize_from(_, _)
tokenize_from(s, cur) ==
    IF s = << >> THEN (IF Len(cur) >= 2 THEN << cur >> ELSE << >>)
    ELSE IF s[1] \in WordChars THEN tokenize_from(Tail(s), Append(cur, s[1]))
    ELSE (IF Len(cur) >= 2 THEN << cur >> ELSE << >>) \o tokenize_from(Tail(s), << >>)

tokenize(doc) == tokenize_from(doc, << >>)

\* The analyzer: tokens of the document that are not stop words.
analyze(doc) == SelectSeq(tokenize(lower(doc)), LAMBDA t : t \notin ENGLISH_STOP_WORDS)

RECURSIVE corpus_tokens(_)
corpus_tokens(docs) ==
    IF docs = << >> THEN << >> ELSE analyze(docs[1]) \o corpus_tokens(Tail(docs))

\* Column sum of the document-term matrix: occurrences of t among the
\* tokens of the corpus.
term_count(tokens, t) == Cardinality({ i \in DOMAIN tokens : tokens[i] = t })

\* max_features: only the max_features most frequent terms are kept.
limit_features(tokens, vocabulary) ==
    IF Cardinality(vocabulary) <= max_features THEN vocabulary
    ELSE CHOOSE V \in SUBSET vocabulary :
            /\ Cardinality(V) = max_features
            /\ \A t \in V : \A u \in vocabulary \ V :
                  term_count(tokens, t) >= term_count(tokens, u)

vocabulary_of(tokens) == limit_features(tokens, Range(tokens))

CharOrd(c) == CHOOSE i \in DOMAIN WordCharSeq : WordCharSeq[i] = c

\* Python's order on strings: a < b
RECURSIVE StrLess(_, _)
StrLess(a, b) ==
    IF b = << >> THEN FALSE
    ELSE IF a = << >> THEN TRUE
    ELSE IF a[1] = b[1] THEN StrLess(Tail(a), Tail(b))
    ELSE CharOrd(a[1]) < CharOrd(b[1])

\* get_feature_names_out(): the vocabulary in sorted order.
RECURSIVE sorted_terms(_)
sorted_terms(V) ==
    IF V = { } THEN << >>
    ELSE LET m == CHOOSE t \in V : \A u \in V \ { t } : StrLess(t, u)
         IN << m >> \o sorted_terms(V \ { m })

feature_names(tokens) == sorted_terms(vocabulary_of(tokens))

\* freqs, indexed like the feature names
term_freqs(tokens, names) == [ i \in DOMAIN names |-> term_count(tokens, names[i]) ]

\* np.argsort(freqs) with the default, unstable sort: some permutation of
\* the indices along which freqs does not decrease; the order of indices
\* with equal freqs is whatever the sort leaves.
argsort_results(freqs) ==
    { p \in Permutations(DOMAIN freqs) :
        \A i \in DOMAIN freqs : \A k \in DOMAIN freqs :
            i < k => freqs[p[i]] <= freqs[p[k]] }

\* a[::-1]
reversed(a) == [ i \in DOMAIN a |-> a[Len(a) + 1 - i] ]

\* a[:k]
take(a, k) == SubSeq(a, 1, Min(k, Len(a)))

\* top_indices without the reversal.
top_indices_unreversed(order, top_k) == take(order, top_k)

\* idx = np.argsort(freqs)[::-1][:top_k], order being the result of argsort
top_indices(order, top_k) == take(reversed(order), top_k)

\* trends = [{"term": terms[i], "count": int(freqs[i])} for i in idx]
trend_list(names, freqs, idx) ==
    [ i \in DOMAIN idx |-> [ term |-> names[idx[i]], count |-> freqs[idx[i]] ] ]

\* is_high with a strict comparison.
is_high_strict(t, ndocs) == 5 * t.count > ndocs

\* t["count"] >= len(docs) * 0.2, in double arithmetic.  The double nearest
\* to 0.2 is 0.2 + 1/(5 * 2^54); for the document counts a run can reach,
\* n * 0.2 rounds to n/5 exactly when 5 divides n and otherwise stays
\* strictly between the integers around n/5, so for an integer count the
\* comparison is that of 5 * count with n.
is_high(t, ndocs) == 5 * t.count >= ndocs

high_demand(trends, ndocs) == SelectSeq(trends, LAMBDA t : is_high(t, ndocs))

\* What extract_trends returns when argsort returns order.
trends_result(docs, names, freqs, top_k, order) ==
    [ raised |-> FALSE,
      trends |-> trend_list(names, freqs, top_indices(order, top_k)),
      high   |-> high_demand(trend_list(names, freqs, top_indices(order, top_k)),
                             Len(docs)) ]

\* The outcomes of extract_trends(jobs, top_k): ([], []) without documents,
\* the ValueError of fit_transform ("empty vocabulary; perhaps the documents
\* only contain stop words") when no token survives, and otherwise one
\* result for each order argsort may return.
extract_trends(jobs, top_k) ==
    LET docs   == trend_docs(jobs)
        tokens == corpus_tokens(docs)
        names  == feature_names(tokens)
        freqs  == term_freqs(tokens, names)
    IN  IF docs = << >>
        THEN { [ raised |-> FALSE, trends |-> << >>, high |-> << >> ] }
        ELSE IF names = << >>
        THEN { [ raised |-> TRUE, trends |-> << >>, high |-> << >> ] }
        ELSE { trends_result(docs, names, freqs, top_k, order) :
                 order \in argsort_results(freqs) }

(***************************************************************************)
(* Inputs: the profiles profile.yaml may hold and the raw records a page   *)
(* of results may hold.                                                    *)
(***************************************************************************)
t_Testing == << "T","e","s","t","i","n","g" >>

t_Automation == << "A","u","t","o","m","a","t","i","o","n" >>

t_QA == << "Q","A" >>

t_Test == << "T","e","s","t" >>

t_Automation_Testing == << "A","u","t","o","m","a","t","i","o","n"," ","T","e","s","t","i","n","g" >>

t_Web == << "W","e","b" >>

t_API == << "A","P","I" >>

t_Apps == << "A","p","p","s" >>

t_App == << "A","p","p" >>

t_SQL == << "S","Q","L" >>

t_Web_Apps == << "W","e","b"," ","A","p","p","s" >>

t_Web_App == << "W","e","b"," ","A","p","p" >>

t_Remote == << "R","e","m","o","t","e" >>

t_SaaS == << "S","a","a","S" >>

t_Auto == << "A","u","t","o" >>

t_SDET == << "S","D","E","T" >>

t_Tester == << "T","e","s","t","e","r" >>

t_company_1 == << "A","u","t","o","m","a","t","i","o","n"," ","T","e","s","t","i","n","g"," ","-"," ","W","e","b"," ","A","p","p","s" >>

t_Pune_Maharashtra == << "P","u","n","e",","," ","M","a","h","a","r","a","s","h","t","r","a" >>

t_QA_in_Pune == << "Q","A"," ","i","n"," ","P","u","n","e" >>

t_Surat == << "S","u","r","a","t" >>

t_Anand_Nadiad == << "A","n","a","n","d"," ","/"," ","N","a","d","i","a","d" >>

t_Nashik == << "N","a","s","h","i","k" >>

t_Mumbai == << "M","u","m","b","a","i" >>

t_India == << "I","n","d","i","a" >>

t_The == << "T","h","e" >>

t_Pune == << "P","u","n","e" >>

t_url_1 == << "h","t","t","p","s",":","/","/","a",".","e","x","a","m","p","l","e","/","1" >>

t_url_2 == << "h","t","t","p","s",":","/","/","a",".","e","x","a","m","p","l","e","/","2" >>

t_Java_API == << "J","a","v","a"," ","A","P","I" >>

t_api_java == << "a","p","i"," ","j","a","v","a" >>

t_blank == << " ","\t" >>

SkillsCore ==
    << t_Testing, t_Automation, t_QA, t_Test, t_Automation_Testing, t_Web, t_API >>

SkillsSecondary == << t_Apps, t_App, t_SQL >>

\* A profile with every section.
ProfileFull ==
    [ keys      |-> { "skills", "core", "secondary", "domains" },
      core      |-> SkillsCore,
      secondary |-> SkillsSecondary,
      domains   |-> << t_Web_Apps, t_Remote, t_SaaS >> ]

\* A profile without skills.secondary and with many domains.
ProfileBroad ==
    [ keys      |-> { "skills", "core", "domains" },
      core      |-> SkillsCore,
      secondary |-> << >>,
      domains   |-> << t_QA, t_Test, t_Testing, t_Automation, t_Auto, t_Web, t_App,
                       t_Apps, t_Web_App, t_Web_Apps, t_Automation_Testing,
                       t_Remote, t_SDET >> ]

\* A profile file without any section.
ProfileEmpty ==
    [ keys |-> { }, core |-> << >>, secondary |-> << >>, domains |-> << >> ]

Profiles == { ProfileFull, ProfileBroad, ProfileEmpty }

\* A remote posting in a target city.
RawRemotePune ==
    [ title        |-> Str(t_QA),
      company      |-> Dict(StrLeaf(t_company_1), FALSE),
      location     |-> Dict(StrLeaf(t_Pune_Maharashtra), TRUE),
      description  |-> Str(t_Remote),
      redirect_url |-> Str(t_url_1),
      link         |-> Absent ]

\* One target city in the location, another in the description; the same
\* redirect_url as RawRemotePune under another title.
RawSuratPune ==
    [ title        |-> Str(t_SDET),
      company      |-> Dict(StrLeaf(t_Automation_Testing), FALSE),
      location     |-> Dict(StrLeaf(t_Surat), TRUE),
      description  |-> Str(t_QA_in_Pune),
      redirect_url |-> Str(t_url_1),
      link         |-> Absent ]

\* Two target cities in the location, no company, a null description and a
\* null link.
RawAnandNadiad ==
    [ title        |-> Str(t_Tester),
      company      |-> Absent,
      location     |-> Dict(StrLeaf(t_Anand_Nadiad), TRUE),
      description  |-> None,
      redirect_url |-> Absent,
      link         |-> None ]

\* A target city in the description only.
RawDescPune ==
    [ title        |-> Str(t_QA),
      company      |-> None,
      location     |-> Dict(StrLeaf(t_India), TRUE),
      description  |-> Str(t_Pune),
      redirect_url |-> Str(t_url_2),
      link         |-> Absent ]

\* No target city; the description holds nothing but a stop word.
RawMumbai ==
    [ title        |-> Absent,
      company      |-> Dict(NoneLeaf, FALSE),
      location     |-> Dict(StrLeaf(t_Mumbai), TRUE),
      description  |-> Str(t_The),
      redirect_url |-> Absent,
      link         |-> Absent ]

\* The location is a plain string.
RawLocationString ==
    [ title        |-> Str(t_QA),
      company      |-> Absent,
      location     |-> Str(t_Nashik),
      description  |-> Absent,
      redirect_url |-> Absent,
      link         |-> Absent ]

\* The location is a nested record without display_name.
RawLocationNoName ==
    [ title        |-> Str(t_QA),
      company      |-> Absent,
      location     |-> Dict(NoLeaf, TRUE),
      description  |-> Absent,
      redirect_url |-> Absent,
      link         |-> Absent ]

RawPool ==
    { RawRemotePune, RawSuratPune, RawAnandNadiad, RawDescPune, RawMumbai,
      RawLocationString, RawLocationNoName }

\* Listings handed to extract_trends when it is exercised on its own.
TrendJobJavaApi ==
    make_job([ title |-> Str(t_QA), company |-> Absent, location |-> Absent,
               description |-> Str(t_Java_API), redirect_url |-> Absent,
               link |-> Absent ])

TrendJobApiJava ==
    make_job([ title |-> Absent, company |-> Absent, location |-> Absent,
               description |-> Str(t_api_java), redirect_url |-> Absent,
               link |-> Absent ])

TrendJobBlank ==
    make_job([ title |-> Str(t_QA), company |-> Absent, location |-> Absent,
               description |-> Str(t_blank), redirect_url |-> Absent,
               link |-> Absent ])

TrendPool == { TrendJobJavaApi, TrendJobApiJava, TrendJobBlank }

\* Bounds of the model.
MaxJobs == 3

MaxDocs == 6

MaxTopK == 2

\* main calls fetch_all_adzuna_jobs(max_pages=3).
max_pages == 3

\* Non-empty sequences over S of length at most n.
SeqsUpTo(S, n) == UNION { [ 1 .. k -> S ] : k \in 1 .. n }

(***************************************************************************)
(* State.                                                                  *)
(***************************************************************************)
VARIABLES
    pc,            \* where main is: the step to run next, "done" or "raised"
    exc,           \* the exception that escaped, "" if none
    creds,         \* ADZUNA_APP_ID and ADZUNA_APP_KEY are set
    PROFILE,       \* the profile loaded from profile.yaml
    page,          \* p, the page fetch_all_adzuna_jobs asks for next; 0 once
                   \* it has returned
    request_error, \* "Adzuna request error" was printed
    raw_jobs,      \* the listings fetched; every other list refers to these
    fetched,       \* raw_jobs as fetch_all_adzuna_jobs returned it
    scored,        \* matched_jobs, then scored: references into raw_jobs
    deduped,
    curated,
    top_k,         \* the top_k extract_trends was called with
    trends,
    high,
    jobs_out,      \* the jobs_*.csv file
    trends_out     \* the trends_*.json file

vars ==
    << pc, exc, creds, PROFILE, page, request_error, raw_jobs, fetched, scored,
       deduped, curated, top_k, trends, high, jobs_out, trends_out >>

NotWritten == [ written |-> FALSE, rows |-> << >>, trends |-> << >>, high |-> << >> ]

Init ==
    /\ pc = "fetch"
    /\ exc = ""
    /\ creds \in BOOLEAN
    /\ PROFILE \in Profiles
    /\ page = 1
    /\ request_error = FALSE
    /\ raw_jobs = << >>
    /\ fetched = << >>
    /\ scored = << >>
    /\ deduped = << >>
    /\ curated = << >>
    /\ top_k = top_k_default
    /\ trends = << >>
    /\ high = << >>
    /\ jobs_out = NotWritten
    /\ trends_out = NotWritten

Raise(e) ==
    /\ pc' = "raised"
    /\ exc' = e

(***************************************************************************)
(* fetch_all_adzuna_jobs: one action per way an iteration of its loop over *)
(* the pages can go.                                                       *)
(***************************************************************************)
\* fetch_adzuna_page raises RuntimeError outside its try block.
FetchMissingCredentials ==
    /\ pc = "fetch"
    /\ ~creds
    /\ Raise("RuntimeError")
    /\ UNCHANGED << creds, PROFILE, page, request_error, raw_jobs, fetched, scored,
                    deduped, curated, top_k, trends, high, jobs_out, trends_out >>

\* The request or its decoding raised: fetch_adzuna_page prints the error
\* and returns {}, and the loop breaks.
FetchPageFails ==
    /\ pc = "fetch"
    /\ creds
    /\ request_error' = TRUE
    /\ fetched' = raw_jobs
    /\ page' = 0
    /\ pc' = "filter"
    /\ UNCHANGED << exc, creds, PROFILE, raw_jobs, scored, deduped, curated,
                    top_k, trends, high, jobs_out, trends_out >>

\* The page holds no results: the loop breaks.
FetchPageEmpty ==
    /\ pc = "fetch"
    /\ creds
    /\ fetched' = raw_jobs
    /\ page' = 0
    /\ pc' = "filter"
    /\ UNCHANGED << exc, creds, PROFILE, request_error, raw_jobs, scored,
                    deduped, curated, top_k, trends, high, jobs_out, trends_out >>

\* The page holds results: each is normalised and appended; after the last
\* page the function returns.
FetchPageResults ==
    /\ pc = "fetch"
    /\ creds
    /\ \E results \in SeqsUpTo(RawPool, MaxJobs - Len(raw_jobs)) :
         LET r == append_results(raw_jobs, results)
         IN  IF r.raised
             THEN /\ Raise("AttributeError")
                  /\ UNCHANGED << page, raw_jobs, fetched >>
             ELSE /\ raw_jobs' = r.jobs
                  /\ exc' = exc
                  /\ IF page + 1 > max_pages
                     THEN pc' = "filter" /\ page' = 0 /\ fetched' = r.jobs
                     ELSE pc' = "fetch" /\ page' = page + 1 /\ fetched' = fetched
    /\ UNCHANGED << creds, PROFILE, request_error, scored, deduped, curated, top_k,
                    trends, high, jobs_out, trends_out >>

(***************************************************************************)
(* main, after the fetch.                                                  *)
(***************************************************************************)
\* matched_jobs = filter_for_targets(raw_jobs)
FilterForTargets ==
    /\ pc = "filter"
    /\ LET r == filter_for_targets(raw_jobs)
       IN  IF r.raised
           THEN /\ Raise("AttributeError")
                /\ raw_jobs' = r.jobs
                /\ scored' = scored
           ELSE /\ pc' = "score"
                /\ exc' = exc
                /\ raw_jobs' = r.jobs
                /\ scored' = r.kept
    /\ UNCHANGED << creds, PROFILE, page, request_error, fetched, deduped, curated,
                    top_k, trends, high, jobs_out, trends_out >>

\* scored = [score_job(j) for j in matched_jobs]
ScoreJobs ==
    /\ pc = "score"
    /\ raw_jobs' = score_all(PROFILE, raw_jobs, scored)
    /\ pc' = "dedupe"
    /\ UNCHANGED << exc, creds, PROFILE, page, request_error, fetched, scored,
                    deduped, curated, top_k, trends, high, jobs_out, trends_out >>

\* The dedupe loop of lines 164-171.
Dedupe ==
    /\ pc = "dedupe"
    /\ deduped' = dedupe(raw_jobs, scored)
    /\ pc' = "curate"
    /\ UNCHANGED << exc, creds, PROFILE, page, request_error, raw_jobs, fetched,
                    scored, curated, top_k, trends, high, jobs_out, trends_out >>

\* curated = [j for j in deduped if j.get("label") in ("Excellent","Good")]
Curate ==
    /\ pc = "curate"
    /\ curated' = select_curated(raw_jobs, deduped)
    /\ pc' = "trends"
    /\ UNCHANGED << exc, creds, PROFILE, page, request_error, raw_jobs, fetched,
                    scored, deduped, top_k, trends, high, jobs_out, trends_out >>

\* trends, high = extract_trends(raw_jobs)
ExtractTrends ==
    /\ pc = "trends"
    /\ \E r \in extract_trends(raw_jobs, top_k_default) :
         IF r.raised
         THEN /\ Raise("ValueError")
              /\ UNCHANGED << trends, high >>
         ELSE /\ pc' = "write_jobs"
              /\ exc' = exc
              /\ trends' = r.trends
              /\ high' = r.high
    /\ UNCHANGED << creds, PROFILE, page, request_error, raw_jobs, fetched, scored,
                    deduped, curated, top_k, jobs_out, trends_out >>

\* pd.DataFrame(curated).to_csv(jobs_out, index=False)
WriteJobs ==
    /\ pc = "write_jobs"
    /\ jobs_out' = [ NotWritten EXCEPT !.written = TRUE,
                                       !.rows = [ i \in DOMAIN curated |-> raw_jobs[curated[i]] ] ]
    /\ pc' = "write_trends"
    /\ UNCHANGED << exc, creds, PROFILE, page, request_error, raw_jobs, fetched,
                    scored, deduped, curated, top_k, trends, high, trends_out >>

\* json.dump({"trends": trends, "high_demand": high}, f, indent=2)
WriteTrends ==
    /\ pc = "write_trends"
    /\ trends_out' = [ NotWritten EXCEPT !.written = TRUE, !.trends = trends,
                                         !.high = high ]
    /\ pc' = "done"
    /\ UNCHANGED << exc, creds, PROFILE, page, request_error, raw_jobs, fetched,
                    scored, deduped, curated, top_k, trends, high, jobs_out >>

Next ==
    \/ FetchMissingCredentials
    \/ FetchPageFails
    \/ FetchPageEmpty
    \/ FetchPageResults
    \/ FilterForTargets
    \/ ScoreJobs
    \/ Dedupe
    \/ Curate
    \/ ExtractTrends
    \/ WriteJobs
    \/ WriteTrends

Spec == Init /\ [][Next]_vars

(***************************************************************************)
(* extract_trends on its own: a corpus is put together listing by listing  *)
(* and the function is called on it.                                       *)
(***************************************************************************)
TrendInit ==
    /\ pc = "trend_input"
    /\ exc = ""
    /\ creds = TRUE
    /\ PROFILE = ProfileEmpty
    /\ page = 1
    /\ request_error = FALSE
    /\ raw_jobs = << >>
    /\ fetched = << >>
    /\ scored = << >>
    /\ deduped = << >>
    /\ curated = << >>
    /\ top_k = top_k_default
    /\ trends = << >>
    /\ high = << >>
    /\ jobs_out = NotWritten
    /\ trends_out = NotWritten

TrendAppendJob ==
    /\ pc = "trend_input"
    /\ Len(raw_jobs) < MaxDocs
    /\ \E j \in TrendPool : raw_jobs' = Append(raw_jobs, j)
    /\ UNCHANGED << pc, exc, creds, PROFILE, page, request_error, fetched, scored,
                    deduped, curated, top_k, trends, high, jobs_out, trends_out >>

TrendCall ==
    /\ pc = "trend_input"
    /\ \E k \in (1 .. MaxTopK) \cup { top_k_default } :
         /\ top_k' = k
         /\ \E r \in extract_trends(raw_jobs, k) :
              /\ pc' = IF r.raised THEN "raised" ELSE "trend_returned"
              /\ exc' = IF r.raised THEN "ValueError" ELSE exc
              /\ trends' = r.trends
              /\ high' = r.high
    /\ UNCHANGED << creds, PROFILE, page, request_error, raw_jobs, fetched, scored,
                    deduped, curated, jobs_out, trends_out >>

TrendNext ==
    \/ TrendAppendJob
    \/ TrendCall

TrendSpec == TrendInit /\ [][TrendNext]_vars

(***************************************************************************)
(* Properties.                                                             *)
(***************************************************************************)
\* filter_for_targets has just returned.
Filtered == pc = "score"

\* The kept listings have just been scored.
Scored == pc = "dedupe"

\* The listings filter_for_targets kept.
Kept == Range(scored)

StrOf(v) == IF v.kind = "str" THEN v.str ELSE << >>

\* The target cities, in configured order, that occur in the canonicalized s.
CitiesIn(s) == SelectSeq(TARGET_CITIES, LAMBDA c : IsSubstr(c, clean_str(s)))

\* The target cities, in configured order, that occur in either text.
CitiesInEither(s, t) ==
    SelectSeq(TARGET_CITIES,
              LAMBDA c : IsSubstr(c, clean_str(s)) \/ IsSubstr(c, clean_str(t)))

HasRemoteKeyword(s) ==
    \E k \in Range(REMOTE_KEYWORDS) : IsSubstr(k, clean_str(s))

IsRemoteListing(j) ==
    HasRemoteKeyword(StrOf(j.location)) \/ HasRemoteKeyword(StrOf(j.desc))

\* C1 as stated: for a listing without remote keyword, the matched
\* locations are the target cities occurring in the canonicalized location
\* or in the canonicalized description, in configured order.
C1_MatchedIsUnionOfBothTexts ==
    Filtered =>
        \A i \in DOMAIN raw_jobs :
            ~IsRemoteListing(raw_jobs[i]) =>
                raw_jobs[i].matched_locations =
                    CitiesInEither(StrOf(raw_jobs[i].location), StrOf(raw_jobs[i].desc))

\* C1 amended: for a listing without remote keyword, the matched locations
\* are the target cities occurring in the canonicalized location, in
\* configured order, when there is one; only when the location names no
\* target city are they the target cities occurring in the description.
C1_MatchedIsLocationElseDescription ==
    Filtered =>
        \A i \in DOMAIN raw_jobs :
            ~IsRemoteListing(raw_jobs[i]) =>
                /\ CitiesIn(StrOf(raw_jobs[i].location)) # << >> =>
                      raw_jobs[i].matched_locations = CitiesIn(StrOf(raw_jobs[i].location))
                /\ CitiesIn(StrOf(raw_jobs[i].location)) = << >> =>
                      raw_jobs[i].matched_locations = CitiesIn(StrOf(raw_jobs[i].desc))
                /\ (i \in Kept) <=> raw_jobs[i].matched_locations # << >>

\* A listing without remote keyword is kept whose location names one target
\* city and whose description names another, and one whose cities come from
\* the description alone.
C1_Witness ==
    /\ Filtered
    /\ \E i \in Kept :
         /\ ~IsRemoteListing(raw_jobs[i])
         /\ CitiesIn(StrOf(raw_jobs[i].location)) # << >>
         /\ \E c \in Range(CitiesIn(StrOf(raw_jobs[i].desc))) :
               c \notin Range(CitiesIn(StrOf(raw_jobs[i].location)))
         /\ raw_jobs[i].matched_locations = CitiesIn(StrOf(raw_jobs[i].location))
    /\ \E i \in Kept :
         /\ ~IsRemoteListing(raw_jobs[i])
         /\ CitiesIn(StrOf(raw_jobs[i].location)) = << >>
         /\ raw_jobs[i].matched_locations = CitiesIn(StrOf(raw_jobs[i].desc))

\* C2: a listing whose canonicalized location or description contains a
\* remote keyword is kept with matched locations exactly ["remote"],
\* whatever cities the texts mention; a listing is rejected only if neither
\* text holds a remote keyword or a target city.
C2_RemoteTakesPriority ==
    Filtered =>
        \A i \in DOMAIN raw_jobs :
            /\ IsRemoteListing(raw_jobs[i]) =>
                  /\ i \in Kept
                  /\ raw_jobs[i].matched_locations = << s_remote >>
            /\ i \notin Kept =>
                  /\ ~IsRemoteListing(raw_jobs[i])
                  /\ CitiesInEither(StrOf(raw_jobs[i].location),
                                    StrOf(raw_jobs[i].desc)) = << >>

\* A kept listing has a remote keyword in its description only and a target
\* city in its location, and another listing is rejected.
C2_Witness ==
    /\ Filtered
    /\ \E i \in Kept :
         /\ HasRemoteKeyword(StrOf(raw_jobs[i].desc))
         /\ ~HasRemoteKeyword(StrOf(raw_jobs[i].location))
         /\ CitiesIn(StrOf(raw_jobs[i].location)) # << >>
         /\ raw_jobs[i].matched_locations = << s_remote >>
    /\ \E i \in DOMAIN raw_jobs : i \notin Kept

\* The text score_job matches against: title, description and company
\* joined by single spaces, canonicalized.
ScoreText(j) ==
    clean_str(StrOf(j.title) \o << " " >> \o StrOf(j.desc) \o << " " >> \o StrOf(j.company))

\* The number of strings of list that, lower-cased, occur in text.
Hits(list, text) ==
    Cardinality({ i \in DOMAIN list : IsSubstr(lower(list[i]), text) })

TitleBonus(text) ==
    IF \E k \in Range(TITLE_KEYWORDS) : IsSubstr(k, text) THEN 10 ELSE 0

\* The part of the score that comes from the skills.
SkillPart(text) ==
    Min(40, 6 * Hits(profile_core(PROFILE), text)
            + 3 * Hits(profile_secondary(PROFILE), text))

\* The label the four buckets assign to score s.
BucketOf(s) ==
    CASE s >= 75 -> "Excellent"
      [] s >= 60 /\ s < 75 -> "Good"
      [] s >= 40 /\ s < 60 -> "Potential"
      [] s < 40 -> "Discard"

\* C3: after score_job the score of every scored listing is an integer in
\* [0,100] and its label is the bucket of its score: Excellent from 75,
\* Good from 60 to 74, Potential from 40 to 59, Discard below 40.
C3_ScoreInRangeAndLabelFromScore ==
    Scored =>
        \A i \in Kept :
            /\ raw_jobs[i].score \in 0 .. 100
            /\ raw_jobs[i].label = BucketOf(raw_jobs[i].score)
            /\ raw_jobs[i].label = "Excellent" <=> raw_jobs[i].score >= 75
            /\ raw_jobs[i].label = "Good" <=>
                  (raw_jobs[i].score >= 60 /\ raw_jobs[i].score < 75)
            /\ raw_jobs[i].label = "Potential" <=>
                  (raw_jobs[i].score >= 40 /\ raw_jobs[i].score < 60)
            /\ raw_jobs[i].label = "Discard" <=> raw_jobs[i].score < 40

\* A listing whose title bonus, skill part and domain bonus sum to more
\* than 100 has been scored 100, next to a listing labelled Discard.
C3_Witness ==
    /\ Scored
    /\ \E i \in Kept :
         /\ TitleBonus(ScoreText(raw_jobs[i])) + SkillPart(ScoreText(raw_jobs[i]))
              + 5 * Hits(profile_domains(PROFILE), ScoreText(raw_jobs[i])) > 100
         /\ raw_jobs[i].score = 100
         /\ raw_jobs[i].label = "Excellent"
    /\ \E i \in Kept : raw_jobs[i].label = "Discard"

\* C4: score = min(100, title_bonus + min(40, 6*C + 3*S) + 5*D), with
\* title_bonus 10 when the text holds at least one title keyword and 0
\* otherwise, and C, S, D the numbers of core skills, secondary skills and
\* domains of the profile that occur in the text.
C4_ScoreFormula ==
    Scored =>
        \A i \in Kept :
            raw_jobs[i].score =
                Min(100, TitleBonus(ScoreText(raw_jobs[i]))
                         + SkillPart(ScoreText(raw_jobs[i]))
                         + 5 * Hits(profile_domains(PROFILE), ScoreText(raw_jobs[i])))

\* A scored listing hits several title keywords, has skills worth more than
\* 40 and hits a domain; its score is below 100.
C4_Witness ==
    /\ Scored
    /\ \E i \in Kept :
         /\ Cardinality({ k \in Range(TITLE_KEYWORDS) :
                            IsSubstr(k, ScoreText(raw_jobs[i])) }) >= 2
         /\ 6 * Hits(profile_core(PROFILE), ScoreText(raw_jobs[i]))
              + 3 * Hits(profile_secondary(PROFILE), ScoreText(raw_jobs[i])) > 40
         /\ Hits(profile_domains(PROFILE), ScoreText(raw_jobs[i])) >= 1
         /\ raw_jobs[i].score = 60

\* The de-duplication key of a listing: its link when that is a non-empty
\* string, else its title followed by its company.
KeyOf(j) ==
    IF StrOf(j.link) # << >> THEN StrOf(j.link) ELSE StrOf(j.title) \o StrOf(j.company)

\* The position of reference r in the sequence refs.
PosIn(refs, r) == CHOOSE p \in DOMAIN refs : refs[p] = r

\* The dedupe loop has just ended.
Deduped == pc = "curate"

\* C5: the de-duplication retains exactly the first occurrence of each
\* distinct key among the scored listings, in their input order, and no two
\* retained listings have the same key.
C5_FirstOccurrenceOfEachKey ==
    Deduped =>
        /\ Range(deduped) =
              { scored[p] : p \in { p \in DOMAIN scored :
                    \A q \in 1 .. (p - 1) :
                        KeyOf(raw_jobs[scored[q]]) # KeyOf(raw_jobs[scored[p]]) } }
        /\ \A a \in DOMAIN deduped : \A b \in DOMAIN deduped :
              a < b =>
                 /\ PosIn(scored, deduped[a]) < PosIn(scored, deduped[b])
                 /\ KeyOf(raw_jobs[deduped[a]]) # KeyOf(raw_jobs[deduped[b]])

\* Of two listings with the same non-empty link and different titles the
\* first is retained and the second dropped, a listing without link is
\* retained after them, and its repetition is dropped.
C5_Witness ==
    /\ Deduped
    /\ Len(deduped) = 2
    /\ \E p \in DOMAIN scored : \E q \in DOMAIN scored :
         /\ p < q
         /\ StrOf(raw_jobs[scored[p]].link) # << >>
         /\ raw_jobs[scored[p]].link = raw_jobs[scored[q]].link
         /\ raw_jobs[scored[p]].title # raw_jobs[scored[q]].title
         /\ scored[p] \in Range(deduped)
         /\ scored[q] \notin Range(deduped)
    /\ \E r \in Range(deduped) : StrOf(raw_jobs[r].link) = << >>

\* C6: with credentials and profile present a run ends with both
\* artifacts written and no exception escapes, whatever the pages return
\* and whatever corpus was fetched.  (The AttributeError raised on the
\* record shapes of C7 is left to C7: here only another exception counts.)
C6_RunAlwaysCompletes ==
    creds =>
        /\ pc = "raised" => exc = "AttributeError"
        /\ pc = "done" => jobs_out.written /\ trends_out.written

\* C7: the listing built from a raw record whose fields are absent, null,
\* strings or (company, location) nested records never fails to be built
\* and has a string for each of title, company, location, desc and link.
C7_NormalizationYieldsStrings ==
    /\ exc # "AttributeError"
    /\ \A i \in DOMAIN raw_jobs :
          /\ raw_jobs[i].title.kind = "str"
          /\ raw_jobs[i].company.kind = "str"
          /\ raw_jobs[i].location.kind = "str"
          /\ raw_jobs[i].desc.kind = "str"
          /\ raw_jobs[i].link.kind = "str"

\* main has computed the trends and is about to write, is writing or is done.
Computed == pc \in { "write_jobs", "write_trends", "done" }

\* The references to the listings that were accepted by the filter, come
\* first among the accepted listings with their key, and are labelled
\* Excellent or Good.
CuratedRefs ==
    { i \in Kept :
        /\ \A k \in Kept : k < i => KeyOf(raw_jobs[k]) # KeyOf(raw_jobs[i])
        /\ raw_jobs[i].label \in { "Excellent", "Good" } }

\* C10: the curated output is exactly the listings accepted by the filter
\* that survived de-duplication and are labelled Excellent or Good, each
\* with score >= 60 and matched locations; filtering and scoring leave the
\* title and desc of every fetched listing as fetched; and the trend result
\* is one extract_trends gives for the corpus as fetched, rejected and
\* duplicate listings included.
C10_CuratedAndTrendsOverFullCorpus ==
    Computed =>
        /\ Range(curated) = CuratedRefs
        /\ \A a \in DOMAIN curated : \A b \in DOMAIN curated : a < b => curated[a] < curated[b]
        /\ \A i \in Range(curated) :
              /\ raw_jobs[i].score >= 60
              /\ raw_jobs[i].matched_locations # << >>
        /\ Len(raw_jobs) = Len(fetched)
        /\ \A i \in DOMAIN raw_jobs :
              /\ raw_jobs[i].title = fetched[i].title
              /\ raw_jobs[i].desc = fetched[i].desc
        /\ [ raised |-> FALSE, trends |-> trends, high |-> high ]
              \in extract_trends(fetched, top_k_default)
        /\ pc = "done" =>
              /\ jobs_out.rows = [ a \in DOMAIN curated |-> raw_jobs[curated[a]] ]
              /\ trends_out.trends = trends
              /\ trends_out.high = high

\* A run is done with a curated listing, a duplicate that was dropped and a
\* rejected listing whose description is part of the trend corpus, and the
\* trends hold a term that no curated listing contains.
C10_Witness ==
    /\ pc = "done"
    /\ curated # << >>
    /\ Len(deduped) < Len(scored)
    /\ \E i \in DOMAIN raw_jobs :
         /\ i \notin Kept
         /\ has_description(raw_jobs[i])
    /\ \E a \in DOMAIN trends :
         \A i \in Range(curated) :
             trends[a].term \notin Range(analyze(trend_doc(raw_jobs[i])))

\* extract_trends has returned a result for the corpus raw_jobs.
Returned == pc = "trend_returned"

\* The listings whose description holds a character that is not whitespace.
DocListings ==
    { i \in DOMAIN raw_jobs :
        \E k \in DOMAIN StrOf(raw_jobs[i].desc) :
            StrOf(raw_jobs[i].desc)[k] \notin Whitespace }

\* The tokens of the corpus, stop words removed, with repetitions.
CorpusTokens == corpus_tokens(trend_docs(raw_jobs))

Occurrences(tokens, t) == Cardinality({ i \in DOMAIN tokens : tokens[i] = t })

TrendTerms == { trends[a].term : a \in DOMAIN trends }

\* The returned list holds distinct tokens of the corpus with their numbers
\* of occurrences, as many as top_k and the vocabulary allow.
TrendsAreCounts(tokens) ==
    /\ \A a \in DOMAIN trends :
          /\ trends[a].term \in Range(tokens)
          /\ trends[a].count = Occurrences(tokens, trends[a].term)
    /\ \A a \in DOMAIN trends : \A b \in DOMAIN trends :
          a # b => trends[a].term # trends[b].term
    /\ Len(trends) = Min(top_k, Cardinality(Range(tokens)))

\* C8 as stated: the tokens are ranked by descending count, tokens of equal
\* count by ascending lexical order, and cut to the top top_k (25 by
\* default): no token left out has a higher count than, or an equal count
\* and a lexically smaller name than, a token kept.
C8_RankedWithTiesInLexicalOrder ==
    Returned =>
        LET tokens == CorpusTokens
        IN  /\ Len(trends) <= top_k
            /\ \A a \in DOMAIN trends : \A b \in DOMAIN trends :
                  a < b =>
                     \/ trends[a].count > trends[b].count
                     \/ /\ trends[a].count = trends[b].count
                        /\ StrLess(trends[a].term, trends[b].term)
            /\ \A t \in Range(tokens) \ TrendTerms : \A a \in DOMAIN trends :
                  /\ Occurrences(tokens, t) <= trends[a].count
                  /\ Occurrences(tokens, t) = trends[a].count =>
                        StrLess(trends[a].term, t)

\* C8 amended: the list has at most top_k (25 by default) entries, its
\* counts do not increase, and no token left out has a higher count than a
\* token kept; tokens of equal count come in the order argsort leaves them.
C8_RankedByCount ==
    Returned =>
        LET tokens == CorpusTokens
        IN  /\ top_k_default = 25
            /\ Len(trends) <= top_k
            /\ TrendsAreCounts(tokens)
            /\ \A a \in DOMAIN trends : \A b \in DOMAIN trends :
                  a < b => trends[a].count >= trends[b].count
            /\ \A t \in Range(tokens) \ TrendTerms : \A a \in DOMAIN trends :
                  Occurrences(tokens, t) <= trends[a].count

\* The vocabulary is larger than top_k, so that a token is left out, and
\* two tokens of equal count are kept with the lexically larger one first.
C8_Witness ==
    /\ Returned
    /\ Len(trends) = top_k
    /\ Range(CorpusTokens) \ TrendTerms # { }
    /\ \E a \in DOMAIN trends : \E b \in DOMAIN trends :
         /\ a < b
         /\ trends[a].count = trends[b].count
         /\ StrLess(trends[b].term, trends[a].term)

\* The positions of the high-demand terms in the trend list, ndocs being
\* the number of documents.
HighPositions(ndocs) == { a \in DOMAIN trends : 5 * trends[a].count >= ndocs }

\* C9: the high-demand list is the subsequence, in the same order, of the
\* trend list whose count is at least 20% of the number of listings with a
\* non-blank description.
C9_HighDemandIsThresholdSubsequence ==
    Returned =>
        LET positions == HighPositions(Cardinality(DocListings))
        IN  /\ Len(high) = Cardinality(positions)
            /\ \A h \in DOMAIN high :
                  \E a \in positions :
                     /\ high[h] = trends[a]
                     /\ Cardinality({ b \in positions : b <= a }) = h

\* A corpus with a blank description in which one kept term has a count of
\* exactly a fifth of the number of documents and is high-demand.
C9_Witness ==
    /\ Returned
    /\ DocListings # DOMAIN raw_jobs
    /\ Cardinality(DocListings) = 5
    /\ \E h \in DOMAIN high : 5 * high[h].count = Cardinality(DocListings)
    /\ \E h \in DOMAIN high : 5 * high[h].count > Cardinality(DocListings)

=============================================================================
